---- MODULE Spec2Model ----
(***************************************************************************)
(* Model of generate_global_trace.py (class GlobalTraceGeneratorD3): the   *)
(* reference resolver, the entity extraction, build_global_trace,          *)
(* calculate_node_levels and the node/edge lists of generate_d3_html.      *)
(*                                                                         *)
(* Python values are represented as follows.                               *)
(*   str        a sequence of one-character strings                        *)
(*   None (str) the one-element sequence NoneStr, which no str equals      *)
(*   int|None   an integer, None being NoneIdx (int() yields no negative   *)
(*              value over the modelled alphabet, which has no sign)       *)
(*   dict       a function; the dicts of the program are filled in         *)
(*              ascending key order, so iteration order is key order       *)
(*   list       a sequence                                                 *)
(*   exception  the field exc of a result record, "" when none was raised  *)
(*                                                                         *)
(* A value that is used more than once is bound by Strict, which evaluates *)
(* it once; the loops of the program are folds over the keys in order.     *)
(***************************************************************************)
EXTENDS Integers, Sequences, FiniteSets, TLC

VARIABLES
    pc,                 \* position of the running method
    entry,              \* the method that was called: generate, calculate_node_levels, resolve_reference
    raised,             \* the exception that escaped, "" when none
    root,               \* self.root.findall('nodes'): the XML records in document order
    nodes,              \* self.nodes
    models,             \* self.models
    trace_models,       \* self.trace_models
    executions,         \* self.executions
    transformations,    \* self.transformations
    global_trace,       \* the dict returned by build_global_trace (plus its locals)
    dependencies,       \* argument of calculate_node_levels
    queue,              \* local queue of calculate_node_levels
    levels,             \* local levels of calculate_node_levels
    html,               \* nodes_data, links_data and ancestor_links of generate_d3_html
    ref_path,           \* argument of resolve_reference / resolve_references_list
    result              \* value returned by the resolver under test

vars == <<pc, entry, raised, root, nodes, models, trace_models, executions,
          transformations, global_trace, dependencies, queue, levels, html,
          ref_path, result>>

----------------------------------------------------------------------------
(* Bounds *)

MaxRefLen == 3          \* longest reference string handed to the resolver alone
NumNodes == 3           \* TraceModels of a dependency map handed to calculate_node_levels alone
MaxLevel == 4           \* the loop of calculate_node_levels is followed up to this level
MaxVersion == 3

\* the longest list of references handed to resolve_references_list alone
MaxTokens == 3         \* greatest version a TraceModel record carries

----------------------------------------------------------------------------
(* Python strings *)

\* F(v), with v evaluated once
Strict(v, F(_)) == CHOOSE y \in {F(x) : x \in {v}} : TRUE

\* a loop `for x in seq: acc = Op(acc, x)`, from the i-th element on
RECURSIVE FoldFrom(_, _, _, _)
FoldFrom(Op(_, _), acc, seq, i) ==
    IF i > Len(seq) THEN acc
    ELSE Strict(Op(acc, seq[i]), LAMBDA a :
         Strict(i + 1, LAMBDA j : FoldFrom(Op, a, seq, j)))

Fold(Op(_, _), acc, seq) == Strict(seq, LAMBDA sq : FoldFrom(Op, acc, sq, 1))

NoneStr == <<"None">>
NoneIdx == 0 - 1
EmptyDict == <<>>

Digits == <<"0", "1", "2", "3", "4", "5", "6", "7", "8", "9">>

IsDigit(c) == \E i \in 1..Len(Digits) : Digits[i] = c

DigitVal(c) == (CHOOSE i \in 1..Len(Digits) : Digits[i] = c) - 1

\* `not s`: None and the empty string are falsy
Falsy(s) == s = NoneStr \/ s = <<>>

\* str(n) for n >= 0
RECURSIVE Str(_)
Str(n) == IF n < 10 THEN <<Digits[n + 1]>> ELSE Str(n \div 10) \o <<Digits[(n % 10) + 1]>>

\* f'//@nodes.{idx}'
NodesRef(idx) == <<"/", "/", "@", "n", "o", "d", "e", "s", ".">> \o Str(idx)

\* s.split(): the maximal runs of non-whitespace characters, in order
SplitWS(s) ==
    LET starts == {i \in 1..Len(s) : s[i] # " " /\ (i = 1 \/ s[i - 1] = " ")}
        endOf(i) == CHOOSE j \in i..Len(s) :
                        /\ \A k \in i..j : s[k] # " "
                        /\ (j = Len(s) \/ s[j + 1] = " ")
        nth(n) == CHOOSE i \in starts : Cardinality({j \in starts : j < i}) = n - 1
    IN [n \in 1..Cardinality(starts) |-> SubSeq(s, nth(n), endOf(nth(n)))]

\* s.strip()
RECURSIVE LStrip(_)
LStrip(s) == IF s # <<>> /\ Head(s) = " " THEN LStrip(Tail(s)) ELSE s

RECURSIVE RStrip(_)
RStrip(s) == IF s # <<>> /\ s[Len(s)] = " " THEN RStrip(SubSeq(s, 1, Len(s) - 1)) ELSE s

Strip(s) == RStrip(LStrip(s))

\* len(s.split('.')) >= 2
HasDot(s) == \E i \in 1..Len(s) : s[i] = "."

\* s.split('.')[-1]
LastPart(s) ==
    IF HasDot(s)
    THEN LET i == CHOOSE k \in 1..Len(s) :
                     s[k] = "." /\ \A j \in (k + 1)..Len(s) : s[j] # "."
         IN SubSeq(s, i + 1, Len(s))
    ELSE s

RECURSIVE DecimalValue(_)
DecimalValue(s) ==
    IF s = <<>> THEN 0 ELSE 10 * DecimalValue(SubSeq(s, 1, Len(s) - 1)) + DigitVal(s[Len(s)])

\* int(s): surrounding whitespace is ignored, anything but decimal digits raises ValueError
IntOf(s) ==
    Strict(Strip(s), LAMBDA t :
        IF t # <<>> /\ \A i \in 1..Len(t) : IsDigit(t[i])
        THEN [exc |-> "", val |-> DecimalValue(t)]
        ELSE [exc |-> "ValueError", val |-> NoneIdx])

----------------------------------------------------------------------------
(* Reference resolver *)

resolve_reference_no_len_check(ref) ==
    IF Falsy(ref) THEN [exc |-> "", val |-> NoneIdx] ELSE IntOf(LastPart(ref))

resolve_reference(ref) ==
    IF Falsy(ref)
    THEN [exc |-> "", val |-> NoneIdx]
    ELSE IF HasDot(ref) THEN IntOf(LastPart(ref)) ELSE [exc |-> "", val |-> NoneIdx]

ResolveTokens_reversed(refs) ==
    IF \E i \in 1..Len(refs) : resolve_reference(refs[i]).exc # ""
    THEN [exc |-> "ValueError", val |-> <<>>]
    ELSE [exc |-> "",
          val |-> [i \in 1..Len(refs) |-> resolve_reference(refs[Len(refs) + 1 - i]).val]]

\* [self.resolve_reference(ref) for ref in refs]
ResolveTokens(refs) ==
    IF \E i \in 1..Len(refs) : resolve_reference(refs[i]).exc # ""
    THEN [exc |-> "ValueError", val |-> <<>>]
    ELSE [exc |-> "", val |-> [i \in 1..Len(refs) |-> resolve_reference(refs[i]).val]]

resolve_references_list(ref) ==
    IF Falsy(ref) THEN [exc |-> "", val |-> <<>>]
    ELSE Strict(SplitWS(ref), ResolveTokens)

----------------------------------------------------------------------------
(* Record Store and entity extraction *)

ModelType == "mpm_trace:Model"
TraceModelType == "mpm_trace:TraceModel"
ExecutionType == "mpm_trace:TransformationExecution"
TransformationType == "mpm_trace:Transformation"

\* node.get('name') of a record without a name attribute
NoName == "None"

\* an XML record none of whose attributes is set (IN_ is the attribute IN, a reserved word here)
BlankNode ==
    [type |-> "other", name |-> NoName, conformsTo |-> NoneStr, associatedWith |-> NoneStr,
     In |-> NoneStr, ancestor |-> NoneStr, version |-> NoneStr, generates |-> NoneStr,
     exec |-> NoneStr, IN_ |-> NoneStr, OUT |-> NoneStr, Out |-> NoneStr, contains |-> <<>>]

\* the keys of a dict in iteration order (the dicts are filled in ascending key order)
SortedSeq(S) ==
    [i \in 1..Cardinality(S) |-> CHOOSE x \in S : Cardinality({y \in S : y < x}) = i - 1]

\* x in l, for a list l
InList(x, l) == \E i \in 1..Len(l) : l[i] = x

\* a or b
Or(a, b) == IF Falsy(a) THEN b ELSE a

OfType(nds, t) == {idx \in DOMAIN nds : nds[idx].type = t}

parse_nodes(rt) == [idx \in 0..(Len(rt) - 1) |-> rt[idx + 1]]

extract_models(nds) ==
    [idx \in OfType(nds, ModelType) |->
        [index |-> idx, name |-> nds[idx].name, conformsTo |-> nds[idx].conformsTo,
         associatedWith |-> nds[idx].associatedWith, In |-> nds[idx].In]]

extract_trace_models(nds) ==
    [idx \in OfType(nds, TraceModelType) |->
        [index |-> idx, name |-> nds[idx].name, conformsTo |-> nds[idx].conformsTo,
         ancestor |-> nds[idx].ancestor, version |-> nds[idx].version,
         traced_rules |-> nds[idx].contains]]

extract_transformation_executions(nds) ==
    [idx \in OfType(nds, ExecutionType) |->
        [index |-> idx, name |-> nds[idx].name, generates |-> nds[idx].generates]]

\* first pass of extract_transformations
DirectPass(nds) ==
    [idx \in OfType(nds, TransformationType) |->
        [index |-> idx, name |-> nds[idx].name, exec |-> nds[idx].exec,
         IN_ |-> nds[idx].IN_, OUT |-> Or(nds[idx].OUT, nds[idx].Out)]]

\* the new value of a Transformation's IN when Model idx is merged into it
MergedIN_overwrite(old, idx) == NodesRef(idx)

MergedIN_prepend(old, idx) ==
    IF Falsy(old) THEN NodesRef(idx) ELSE NodesRef(idx) \o <<" ">> \o old

\* lines 136-139
MergedIN(old, idx) ==
    IF Falsy(old) THEN NodesRef(idx) ELSE old \o <<" ">> \o NodesRef(idx)

\* the loop over trans_indices for one Model record
MergeInto(trans, idx, tis) ==
    Fold(LAMBDA acc, t :
            IF t \in DOMAIN acc THEN [acc EXCEPT ![t].IN_ = MergedIN(@, idx)] ELSE acc,
         trans, tis)

\* second pass of extract_transformations over the records idxs, in order
MergePass(trans, nds, idxs) ==
    Fold(LAMBDA acc, idx :
            IF acc.exc # "" THEN acc
            ELSE IF nds[idx].type = ModelType /\ ~Falsy(nds[idx].In)
            THEN Strict(resolve_references_list(nds[idx].In), LAMBDA r :
                    IF r.exc # "" THEN [exc |-> r.exc, val |-> acc.val]
                    ELSE [exc |-> "", val |-> MergeInto(acc.val, idx, r.val)])
            ELSE acc,
         [exc |-> "", val |-> trans], idxs)

extract_transformations(nds) == MergePass(DirectPass(nds), nds, SortedSeq(DOMAIN nds))

----------------------------------------------------------------------------
(* build_global_trace *)

ScanExecutions_last_match(trace_idx, execs, idxs) ==
    Fold(LAMBDA acc, e :
            IF acc.exc # "" THEN acc
            ELSE Strict(resolve_reference(execs[e].generates), LAMBDA r :
                    IF r.exc # "" THEN [exc |-> r.exc, val |-> NoneIdx]
                    ELSE IF r.val = trace_idx THEN [exc |-> "", val |-> e]
                    ELSE acc),
         [exc |-> "", val |-> NoneIdx], idxs)

\* the scan of self.executions for one TraceModel: the first execution, in record
\* order, whose generates resolves to trace_idx (NoneIdx when there is none)
ScanExecutions(trace_idx, execs, idxs) ==
    Fold(LAMBDA acc, e :
            IF acc.exc # "" \/ acc.val # NoneIdx THEN acc
            ELSE Strict(resolve_reference(execs[e].generates), LAMBDA r :
                    IF r.exc # "" THEN [exc |-> r.exc, val |-> NoneIdx]
                    ELSE IF r.val = trace_idx THEN [exc |-> "", val |-> e]
                    ELSE acc),
         [exc |-> "", val |-> NoneIdx], idxs)

ExecToTraceLoop(acc0, execs, tidxs) ==
    Fold(LAMBDA acc, trace_idx :
            IF acc.exc # "" THEN acc
            ELSE Strict(ScanExecutions(trace_idx, execs, SortedSeq(DOMAIN execs)), LAMBDA r :
                    IF r.exc # "" THEN [exc |-> r.exc, val |-> acc.val]
                    ELSE IF r.val = NoneIdx THEN acc
                    ELSE [exc |-> "",
                          val |-> [e \in DOMAIN acc.val \cup {r.val} |->
                                     IF e = r.val THEN trace_idx ELSE acc.val[e]]]),
         [exc |-> "", val |-> acc0], tidxs)

ExecToTrace(tms, execs) == ExecToTraceLoop(EmptyDict, execs, SortedSeq(DOMAIN tms))

\* the scan of self.transformations for one execution: the first Transformation, in
\* record order, whose resolved exec references contain exec_idx
ScanTransformations(exec_idx, trans, idxs) ==
    Fold(LAMBDA acc, t :
            IF acc.exc # "" \/ acc.val # NoneIdx THEN acc
            ELSE Strict(resolve_references_list(trans[t].exec), LAMBDA r :
                    IF r.exc # "" THEN [exc |-> r.exc, val |-> NoneIdx]
                    ELSE IF InList(exec_idx, r.val) THEN [exc |-> "", val |-> t]
                    ELSE acc),
         [exc |-> "", val |-> NoneIdx], idxs)

TraceToTransformationLoop(acc0, e2t, trans, tidxs) ==
    Fold(LAMBDA acc, trace_idx :
            IF acc.exc # "" THEN acc
            ELSE Strict({e \in DOMAIN e2t : e2t[e] = trace_idx}, LAMBDA es :
                    IF es = {} THEN acc
                    ELSE Strict(ScanTransformations(CHOOSE e \in es : TRUE, trans,
                                                    SortedSeq(DOMAIN trans)), LAMBDA r :
                            IF r.exc # "" THEN [exc |-> r.exc, val |-> acc.val]
                            ELSE IF r.val = NoneIdx THEN acc
                            ELSE [exc |-> "",
                                  val |-> [t \in DOMAIN acc.val \cup {trace_idx} |->
                                             IF t = trace_idx THEN r.val ELSE acc.val[t]]])),
         [exc |-> "", val |-> acc0], tidxs)

TraceToTransformation(tms, e2t, trans) ==
    TraceToTransformationLoop(EmptyDict, e2t, trans, SortedSeq(DOMAIN tms))

AncestorPairs(tms) ==
    LET with == {t \in DOMAIN tms : ~Falsy(tms[t].ancestor)}
    IN IF \E t \in with : resolve_reference(tms[t].ancestor).exc # ""
       THEN [exc |-> "ValueError", val |-> {}]
       ELSE [exc |-> "",
             val |-> {<<resolve_reference(tms[t].ancestor).val, t>> :
                        t \in {u \in with : resolve_reference(tms[u].ancestor).val # NoneIdx}}]

\* int(trace_data.get('version', 1)): the key 'version' is always present in the
\* dict built by extract_trace_models, so the default 1 is never used
VersionOf(v) ==
    IF v = NoneStr THEN [exc |-> "TypeError", val |-> 0] ELSE IntOf(v)

IsNewer_or_equal(version, current_version) == version >= current_version

\* version > current_version
IsNewer(version, current_version) == version > current_version

LatestLoop(acc0, t2t, tms, tidxs) ==
    Fold(LAMBDA acc, trace_idx :
            IF acc.exc # "" THEN acc
            ELSE Strict(VersionOf(tms[trace_idx].version), LAMBDA v :
                    IF v.exc # "" THEN [exc |-> v.exc, val |-> acc.val]
                    ELSE IF \/ t2t[trace_idx] \notin DOMAIN acc.val
                            \/ IsNewer(v.val, acc.val[t2t[trace_idx]][2])
                    THEN [exc |-> "",
                          val |-> [t \in DOMAIN acc.val \cup {t2t[trace_idx]} |->
                                     IF t = t2t[trace_idx] THEN <<trace_idx, v.val>>
                                     ELSE acc.val[t]]]
                    ELSE acc),
         [exc |-> "", val |-> acc0], tidxs)

TransToLatestTrace(t2t, tms) == LatestLoop(EmptyDict, t2t, tms, SortedSeq(DOMAIN t2t))

AnyShared_first_only(output_models, input_models) ==
    output_models # <<>> /\ InList(output_models[1], input_models)

\* any(out_model in input_models for out_model in output_models)
AnyShared(output_models, input_models) ==
    \E i \in 1..Len(output_models) : InList(output_models[i], input_models)

Related_one_way(pairs, a, b) == <<a, b>> \in pairs

\* (trace_idx, other_trace_idx) in ancestor_pairs or (other_trace_idx, trace_idx) in ancestor_pairs
Related(pairs, a, b) == <<a, b>> \in pairs \/ <<b, a>> \in pairs

TargetsLoop_no_self_skip(acc0, trace_idx, output_models, t2t, trans, pairs, oidxs) ==
    Fold(LAMBDA acc, other :
            IF acc.exc # "" THEN acc
            ELSE IF Related(pairs, trace_idx, other) THEN acc
            ELSE Strict(resolve_references_list(trans[t2t[other]].IN_), LAMBDA r :
                    IF r.exc # "" THEN [exc |-> r.exc, val |-> acc.val]
                    ELSE IF AnyShared(output_models, r.val)
                    THEN [exc |-> "", val |-> Append(acc.val, other)]
                    ELSE acc),
         [exc |-> "", val |-> acc0], oidxs)

\* the inner loop over trace_to_transformation for one source trace_idx
TargetsLoop(acc0, trace_idx, output_models, t2t, trans, pairs, oidxs) ==
    Fold(LAMBDA acc, other :
            IF acc.exc # "" THEN acc
            ELSE IF trace_idx = other \/ Related(pairs, trace_idx, other) THEN acc
            ELSE Strict(resolve_references_list(trans[t2t[other]].IN_), LAMBDA r :
                    IF r.exc # "" THEN [exc |-> r.exc, val |-> acc.val]
                    ELSE IF AnyShared(output_models, r.val)
                    THEN [exc |-> "", val |-> Append(acc.val, other)]
                    ELSE acc),
         [exc |-> "", val |-> acc0], oidxs)

DependenciesLoop(acc0, t2t, trans, pairs, latest, tidxs) ==
    Fold(LAMBDA acc, trace_idx :
            IF acc.exc # "" \/ trace_idx \notin latest THEN acc
            ELSE Strict(resolve_references_list(trans[t2t[trace_idx]].OUT), LAMBDA out :
                    IF out.exc # "" THEN [exc |-> out.exc, val |-> acc.val]
                    ELSE Strict(TargetsLoop(<<>>, trace_idx, out.val, t2t, trans, pairs, tidxs),
                                LAMBDA r :
                            IF r.exc # "" THEN [exc |-> r.exc, val |-> acc.val]
                            ELSE IF r.val = <<>> THEN acc
                            ELSE [exc |-> "",
                                  val |-> [t \in DOMAIN acc.val \cup {trace_idx} |->
                                             IF t = trace_idx THEN r.val ELSE acc.val[t]]])),
         [exc |-> "", val |-> acc0], tidxs)

TraceDependencies_all_sources(t2t, trans, pairs, latest) ==
    DependenciesLoop(EmptyDict, t2t, trans, pairs, DOMAIN t2t, SortedSeq(DOMAIN t2t))

\* lines 205-229
TraceDependencies(t2t, trans, pairs, latest) ==
    DependenciesLoop(EmptyDict, t2t, trans, pairs, latest, SortedSeq(DOMAIN t2t))

\* what build_global_trace holds before it has run, or after it raised
NoTrace ==
    [trace_to_transformation |-> EmptyDict, trace_dependencies |-> EmptyDict,
     exec_to_trace |-> EmptyDict, ancestor_pairs |-> {}, trans_to_latest_trace |-> EmptyDict,
     latest_trace_indices |-> {}]

build_global_trace(tms, execs, trans) ==
    Strict(ExecToTrace(tms, execs), LAMBDA e2t :
      IF e2t.exc # "" THEN [exc |-> e2t.exc, val |-> NoTrace] ELSE
    Strict(TraceToTransformation(tms, e2t.val, trans), LAMBDA t2t :
      IF t2t.exc # "" THEN [exc |-> t2t.exc, val |-> NoTrace] ELSE
    Strict(AncestorPairs(tms), LAMBDA pairs :
      IF pairs.exc # "" THEN [exc |-> pairs.exc, val |-> NoTrace] ELSE
    Strict(TransToLatestTrace(t2t.val, tms), LAMBDA latest :
      IF latest.exc # "" THEN [exc |-> latest.exc, val |-> NoTrace] ELSE
    Strict({latest.val[t][1] : t \in DOMAIN latest.val}, LAMBDA latest_trace_indices :
    Strict(TraceDependencies(t2t.val, trans, pairs.val, latest_trace_indices), LAMBDA deps :
      IF deps.exc # "" THEN [exc |-> deps.exc, val |-> NoTrace] ELSE
      [exc |-> "",
       val |-> [trace_to_transformation |-> t2t.val,
                trace_dependencies |-> deps.val,
                exec_to_trace |-> e2t.val,
                ancestor_pairs |-> pairs.val,
                trans_to_latest_trace |-> latest.val,
                latest_trace_indices |-> latest_trace_indices]]))))))

----------------------------------------------------------------------------
(* calculate_node_levels: the values computed before and inside the loop *)

\* nodes_with_incoming
NodesWithIncoming(deps) == UNION {{deps[k][i] : i \in 1..Len(deps[k])} : k \in DOMAIN deps}

SourceNodes_keys_only(tms, deps) == (DOMAIN deps) \ NodesWithIncoming(deps)

\* source_nodes = all_nodes - nodes_with_incoming
SourceNodes(tms, deps) == (DOMAIN tms) \ NodesWithIncoming(deps)

\* the orders in which a set can be iterated
Orders(S) == {s \in [1..Cardinality(S) -> S] : \A i, j \in 1..Cardinality(S) : s[i] = s[j] => i = j}

Children_same_level(deps, node, level) ==
    IF node \in DOMAIN deps
    THEN [i \in 1..Len(deps[node]) |-> <<deps[node][i], level>>]
    ELSE <<>>

\* [(child, level + 1) for child in dependencies[node]]
Children(deps, node, level) ==
    IF node \in DOMAIN deps
    THEN [i \in 1..Len(deps[node]) |-> <<deps[node][i], level + 1>>]
    ELSE <<>>

ShouldRecord_lower_level(lv, node, level) == node \notin DOMAIN lv \/ level < lv[node]

ShouldRecord_first_only(lv, node, level) == node \notin DOMAIN lv

\* node not in levels or level > levels[node]
ShouldRecord(lv, node, level) == node \notin DOMAIN lv \/ level > lv[node]

Record_reset(lv, node, level) == [n \in {node} |-> level]

\* levels[node] = level
Record(lv, node, level) ==
    [n \in DOMAIN lv \cup {node} |-> IF n = node THEN level ELSE lv[n]]

LevelGet_default_one(node_levels, trace_idx) ==
    IF trace_idx \in DOMAIN node_levels THEN node_levels[trace_idx] ELSE 1

\* node_levels.get(trace_idx, 0)
LevelGet(node_levels, trace_idx) ==
    IF trace_idx \in DOMAIN node_levels THEN node_levels[trace_idx] ELSE 0

----------------------------------------------------------------------------
(* generate_d3_html: nodes_data, links_data and ancestor_links *)

Flatten(ss) == Fold(LAMBDA acc, x : acc \o x, <<>>, ss)

\* [f(k) for k in d], d iterated in key order
ForKeys(S, f(_)) == Strict(SortedSeq(S), LAMBDA ks : [i \in 1..Len(ks) |-> f(ks[i])])

\* the first exception among a list of results, "" when there is none
FirstExc(rs) == Fold(LAMBDA acc, r : IF acc # "" THEN acc ELSE r.exc, "", rs)

Vals(rs) == [i \in 1..Len(rs) |-> rs[i].val]

\* node.get('name', 'Unknown')
NameOr(name, default) == IF name = NoName THEN default ELSE name

\* `if trans_idx`, for trans_idx = trace_to_trans.get(trace_idx): false for None and for 0
Truthy_not_none(idx) == idx # NoneIdx

Truthy(idx) == idx # NoneIdx /\ idx # 0

\* d.get(k), None when absent
DictGet(d, k) == IF k \in DOMAIN d THEN d[k] ELSE NoneIdx

\* resolve_references_list(ref) if ref else []
ResolveIfSet(ref) ==
    IF Falsy(ref) THEN [exc |-> "", val |-> <<>>] ELSE resolve_references_list(ref)

\* lines 283-293: the first Transformation, in record order, whose OUT contains model_idx
ProducerScan(model_idx, trans, idxs) ==
    Fold(LAMBDA acc, t :
            IF acc.exc # "" \/ acc.val # NoneIdx THEN acc
            ELSE Strict(ResolveIfSet(trans[t].OUT), LAMBDA r :
                    IF r.exc # "" THEN [exc |-> r.exc, val |-> NoneIdx]
                    ELSE IF InList(model_idx, r.val) THEN [exc |-> "", val |-> t]
                    ELSE acc),
         [exc |-> "", val |-> NoneIdx], idxs)

ModelLevel(model_idx, trans, t2t, node_levels) ==
    Strict(ProducerScan(model_idx, trans, SortedSeq(DOMAIN trans)), LAMBDA p :
    Strict({t \in DOMAIN t2t : t2t[t] = p.val}, LAMBDA traces :
        IF p.exc # "" THEN [exc |-> p.exc, val |-> 0]
        ELSE IF p.val = NoneIdx \/ traces = {} THEN [exc |-> "", val |-> 0]
        ELSE [exc |-> "",
              val |-> LevelGet(node_levels,
                               CHOOSE t \in traces : \A u \in traces : t <= u) + 1]))

\* lines 295-300
MetamodelName(conformsTo, nds) ==
    IF Falsy(conformsTo) THEN [exc |-> "", val |-> "Unknown"]
    ELSE Strict(resolve_reference(conformsTo), LAMBDA r :
            IF r.exc # "" THEN [exc |-> r.exc, val |-> "Unknown"]
            ELSE IF r.val \in DOMAIN nds
            THEN [exc |-> "", val |-> NameOr(nds[r.val].name, "Unknown")]
            ELSE [exc |-> "", val |-> "Unknown"])

ModelNode(model_idx, mods, trans, nds, t2t, node_levels) ==
    Strict(ModelLevel(model_idx, trans, t2t, node_levels), LAMBDA lv :
    Strict(MetamodelName(mods[model_idx].conformsTo, nds), LAMBDA mm :
        [exc |-> IF lv.exc # "" THEN lv.exc ELSE mm.exc,
         val |-> [id |-> <<"model", model_idx>>, name |-> mods[model_idx].name,
                  type |-> "model", metamodel |-> mm.val, level |-> lv.val]]))

\* [self.nodes[i].get('name', 'Unknown') for i in indices if i in self.nodes]
NamesOf(indices, nds) ==
    Fold(LAMBDA acc, i :
            IF i \in DOMAIN nds THEN Append(acc, NameOr(nds[i].name, "Unknown")) ELSE acc,
         <<>>, indices)

\* all trace_links of a TraceModel, rule by rule
AllLinks(rules) == Fold(LAMBDA acc, rule : acc \o rule.trace_links, <<>>, rules)

IsAttributeLink(link) == ~Falsy(link.sourceAttribute) \/ ~Falsy(link.targetAttribute)

HasElementPath(link) == ~Falsy(link.sourceElementPath) \/ ~Falsy(link.targetElementPath)

TraceNode(trace_idx, tms, trans, nds, t2t, node_levels) ==
    Strict(DictGet(t2t, trace_idx), LAMBDA trans_idx :
    Strict(IF Truthy(trans_idx) THEN ResolveIfSet(trans[trans_idx].IN_)
           ELSE [exc |-> "", val |-> <<>>], LAMBDA ins :
    Strict(IF Truthy(trans_idx) THEN ResolveIfSet(trans[trans_idx].OUT)
           ELSE [exc |-> "", val |-> <<>>], LAMBDA outs :
    Strict(AllLinks(tms[trace_idx].traced_rules), LAMBDA links :
        [exc |-> IF ins.exc # "" THEN ins.exc ELSE outs.exc,
         val |-> [id |-> <<"trace", trace_idx>>, name |-> tms[trace_idx].name,
                  type |-> "trace",
                  transformation |-> IF Truthy(trans_idx) THEN trans[trans_idx].name
                                     ELSE "Unknown",
                  input_models |-> NamesOf(ins.val, nds),
                  output_models |-> NamesOf(outs.val, nds),
                  num_rules |-> Len(tms[trace_idx].traced_rules),
                  num_element_traces |-> Len(SelectSeq(links, LAMBDA l : ~IsAttributeLink(l))),
                  num_attribute_traces |-> Len(SelectSeq(links, IsAttributeLink)),
                  level |-> LevelGet(node_levels, trace_idx),
                  version |-> tms[trace_idx].version]]))))

\* the value of element_trace_counter when the loop of lines 362-408 reaches the traces idxs
CounterAt(tms, idxs) ==
    Fold(LAMBDA acc, t : acc + Len(SelectSeq(AllLinks(tms[t].traced_rules), HasElementPath)),
         0, idxs)

\* lines 362-408 for one TraceModel: its element trace nodes, with the model indices
\* that element_trace_map keeps for them
ElementNodes(trace_idx, tms, trans, t2t, node_levels) ==
    Strict(DictGet(t2t, trace_idx), LAMBDA trans_idx :
    Strict(IF Truthy(trans_idx) THEN ResolveIfSet(trans[trans_idx].IN_)
           ELSE [exc |-> "", val |-> <<>>], LAMBDA ins :
    Strict(IF Truthy(trans_idx) THEN ResolveIfSet(trans[trans_idx].OUT)
           ELSE [exc |-> "", val |-> <<>>], LAMBDA outs :
    Strict(SelectSeq(AllLinks(tms[trace_idx].traced_rules), HasElementPath), LAMBDA links :
    Strict(CounterAt(tms, SortedSeq({t \in DOMAIN tms : t < trace_idx})), LAMBDA first :
        [exc |-> IF ins.exc # "" THEN ins.exc ELSE outs.exc,
         val |-> [i \in 1..Len(links) |->
                    [id |-> <<"element_trace", trace_idx, first + i - 1>>,
                     name |-> NameOr(links[i].name, "Unnamed"),
                     type |-> "element_trace",
                     trace_type |-> IF IsAttributeLink(links[i]) THEN "attribute" ELSE "element",
                     level |-> LevelGet(node_levels, trace_idx),
                     parent_trace |-> tms[trace_idx].name,
                     input_models |-> ins.val,
                     output_models |-> outs.val]]])))))

\* lines 414-437 for one entry of trace_to_trans
TraceLinks(trace_idx, trans, t2t) ==
    Strict(ResolveIfSet(trans[t2t[trace_idx]].IN_), LAMBDA ins :
    Strict(ResolveIfSet(trans[t2t[trace_idx]].OUT), LAMBDA outs :
        [exc |-> IF ins.exc # "" THEN ins.exc ELSE outs.exc,
         val |-> [i \in 1..Len(ins.val) |->
                    [source |-> <<"model", ins.val[i]>>, target |-> <<"trace", trace_idx>>,
                     type |-> "model_to_trace"]]
                 \o [i \in 1..Len(outs.val) |->
                    [source |-> <<"trace", trace_idx>>, target |-> <<"model", outs.val[i]>>,
                     type |-> "trace_to_model"]]]))

\* lines 440-458 for one entry of element_trace_map
ElementLinks(en) ==
    [i \in 1..Len(en.input_models) |->
        [source |-> <<"model", en.input_models[i]>>, target |-> en.id,
         type |-> "model_to_element_trace"]]
    \o [i \in 1..Len(en.output_models) |->
        [source |-> en.id, target |-> <<"model", en.output_models[i]>>,
         type |-> "element_trace_to_model"]]

\* lines 460-470 for one TraceModel
AncestorLink(trace_idx, tms) ==
    IF Falsy(tms[trace_idx].ancestor) THEN [exc |-> "", val |-> <<>>]
    ELSE Strict(resolve_reference(tms[trace_idx].ancestor), LAMBDA r :
            IF r.exc # "" THEN [exc |-> r.exc, val |-> <<>>]
            ELSE IF r.val = NoneIdx THEN [exc |-> "", val |-> <<>>]
            ELSE [exc |-> "",
                  val |-> <<[source |-> <<"trace", r.val>>, target |-> <<"trace", trace_idx>>,
                             type |-> "evolution"]>>])

NoHtml ==
    [model_nodes |-> <<>>, trace_nodes |-> <<>>, element_nodes |-> <<>>,
     links_data |-> <<>>, ancestor_links |-> <<>>]

\* nodes_data is model_nodes, then trace_nodes, then element_nodes
generate_d3_html(mods, tms, trans, nds, gt, node_levels) ==
    Strict(gt.trace_to_transformation, LAMBDA t2t :
    Strict(ForKeys(DOMAIN mods, LAMBDA m : ModelNode(m, mods, trans, nds, t2t, node_levels)),
           LAMBDA mn :
    Strict(ForKeys(DOMAIN tms, LAMBDA t : TraceNode(t, tms, trans, nds, t2t, node_levels)),
           LAMBDA tn :
    Strict(ForKeys(DOMAIN tms, LAMBDA t : ElementNodes(t, tms, trans, t2t, node_levels)),
           LAMBDA en :
    Strict(ForKeys(DOMAIN t2t, LAMBDA t : TraceLinks(t, trans, t2t)), LAMBDA tl :
    Strict(ForKeys(DOMAIN tms, LAMBDA t : AncestorLink(t, tms)), LAMBDA al :
    Strict(Flatten(Vals(en)), LAMBDA element_nodes :
        IF FirstExc(mn \o tn \o en \o tl \o al) # ""
        THEN [exc |-> FirstExc(mn \o tn \o en \o tl \o al), val |-> NoHtml]
        ELSE [exc |-> "",
              val |-> [model_nodes |-> Vals(mn),
                       trace_nodes |-> Vals(tn),
                       element_nodes |-> element_nodes,
                       links_data |-> Flatten(Vals(tl))
                                      \o Flatten([i \in 1..Len(element_nodes) |->
                                                     ElementLinks(element_nodes[i])]),
                       ancestor_links |-> Flatten(Vals(al))]])))))))

----------------------------------------------------------------------------
(* generate: the debug report of lines 1035-1046 *)

\* [self.nodes[i].get('name') for i in indices]: KeyError for an index that is no key
NamesLookup(indices, nds) ==
    IF \E i \in 1..Len(indices) : indices[i] \notin DOMAIN nds
    THEN [exc |-> "KeyError", val |-> <<>>]
    ELSE [exc |-> "", val |-> [i \in 1..Len(indices) |-> nds[indices[i]].name]]

NamesLookup_guarded(indices, nds) == [exc |-> "", val |-> NamesOf(indices, nds)]

\* the report lines of one Transformation: IN first, then OUT
DebugLines(td, nds) ==
    Strict(ResolveIfSet(td.IN_), LAMBDA ins :
    Strict(NamesLookup(ins.val, nds), LAMBDA inNames :
    Strict(ResolveIfSet(td.OUT), LAMBDA outs :
    Strict(NamesLookup(outs.val, nds), LAMBDA outNames :
        [exc |-> IF ins.exc # "" THEN ins.exc
                 ELSE IF inNames.exc # "" THEN inNames.exc
                 ELSE IF outs.exc # "" THEN outs.exc
                 ELSE outNames.exc,
         val |-> <<inNames.val, outNames.val>>]))))

DebugReport(trans, nds) == FirstExc(ForKeys(DOMAIN trans, LAMBDA t : DebugLines(trans[t], nds)))

----------------------------------------------------------------------------
(* Operations *)

\* an exception escapes: the run ends
Raise(exc) == pc' = "raised" /\ raised' = exc

\* generate, line 1029
ParseNodes ==
    /\ pc = "parse_nodes"
    /\ nodes' = parse_nodes(root)
    /\ pc' = "extract_models"
    /\ UNCHANGED <<entry, raised, root, models, trace_models, executions, transformations,
                   global_trace, dependencies, queue, levels, html, ref_path, result>>

\* generate, line 1030
ExtractModels ==
    /\ pc = "extract_models"
    /\ models' = extract_models(nodes)
    /\ pc' = "extract_trace_models"
    /\ UNCHANGED <<entry, raised, root, nodes, trace_models, executions, transformations,
                   global_trace, dependencies, queue, levels, html, ref_path, result>>

\* generate, line 1031
ExtractTraceModels ==
    /\ pc = "extract_trace_models"
    /\ trace_models' = extract_trace_models(nodes)
    /\ pc' = "extract_transformation_executions"
    /\ UNCHANGED <<entry, raised, root, nodes, models, executions, transformations,
                   global_trace, dependencies, queue, levels, html, ref_path, result>>

\* generate, line 1032
ExtractTransformationExecutions ==
    /\ pc = "extract_transformation_executions"
    /\ executions' = extract_transformation_executions(nodes)
    /\ pc' = "extract_transformations"
    /\ UNCHANGED <<entry, raised, root, nodes, models, trace_models, transformations,
                   global_trace, dependencies, queue, levels, html, ref_path, result>>

\* generate, line 1033; a ValueError of the merge pass leaves the merges made so far
ExtractTransformations ==
    /\ pc = "extract_transformations"
    /\ \E r \in {extract_transformations(nodes)} :
          /\ transformations' = r.val
          /\ IF r.exc # "" THEN Raise(r.exc) ELSE pc' = "debug_report" /\ raised' = raised
    /\ UNCHANGED <<entry, root, nodes, models, trace_models, executions,
                   global_trace, dependencies, queue, levels, html, ref_path, result>>

\* generate, lines 1035-1046
DebugReportStep ==
    /\ pc = "debug_report"
    /\ \E exc \in {DebugReport(transformations, nodes)} :
          IF exc # "" THEN Raise(exc) ELSE pc' = "build_global_trace" /\ raised' = raised
    /\ UNCHANGED <<entry, root, nodes, models, trace_models, executions, transformations,
                   global_trace, dependencies, queue, levels, html, ref_path, result>>

\* generate, line 1048
BuildGlobalTrace ==
    /\ pc = "build_global_trace"
    /\ \E r \in {build_global_trace(trace_models, executions, transformations)} :
          /\ global_trace' = r.val
          /\ IF r.exc # "" THEN Raise(r.exc) ELSE pc' = "generate_d3_html" /\ raised' = raised
    /\ UNCHANGED <<entry, root, nodes, models, trace_models, executions, transformations,
                   dependencies, queue, levels, html, ref_path, result>>

\* generate_d3_html, lines 267-271: the call of calculate_node_levels
GenerateD3HtmlCall ==
    /\ pc = "generate_d3_html"
    /\ dependencies' = global_trace.trace_dependencies
    /\ pc' = "calculate_node_levels"
    /\ UNCHANGED <<entry, raised, root, nodes, models, trace_models, executions,
                   transformations, global_trace, queue, levels, html, ref_path, result>>

\* calculate_node_levels, lines 239-249; a set is iterated in an order the program
\* does not choose
CalculateNodeLevels ==
    /\ pc = "calculate_node_levels"
    /\ \E order \in Orders(SourceNodes(trace_models, dependencies)) :
          queue' = [i \in 1..Len(order) |-> <<order[i], 0>>]
    /\ levels' = EmptyDict
    /\ pc' = "bfs"
    /\ UNCHANGED <<entry, raised, root, nodes, models, trace_models, executions,
                   transformations, global_trace, dependencies, html, ref_path, result>>

LevelsStep_no_pop ==
    /\ pc = "bfs"
    /\ queue # <<>>
    /\ queue[1][2] <= MaxLevel
    /\ LET node == queue[1][1]
           level == queue[1][2]
       IN IF ShouldRecord(levels, node, level)
          THEN /\ levels' = Record(levels, node, level)
               /\ queue' = queue \o Children(dependencies, node, level)
          ELSE /\ levels' = levels
               /\ queue' = queue
    /\ UNCHANGED <<pc, entry, raised, root, nodes, models, trace_models, executions,
                   transformations, global_trace, dependencies, html, ref_path, result>>

\* calculate_node_levels, lines 251-261: one iteration of the while loop
LevelsStep ==
    /\ pc = "bfs"
    /\ queue # <<>>
    /\ queue[1][2] <= MaxLevel
    /\ LET node == queue[1][1]
           level == queue[1][2]
       IN IF ShouldRecord(levels, node, level)
          THEN /\ levels' = Record(levels, node, level)
               /\ queue' = Tail(queue) \o Children(dependencies, node, level)
          ELSE /\ levels' = levels
               /\ queue' = Tail(queue)
    /\ UNCHANGED <<pc, entry, raised, root, nodes, models, trace_models, executions,
                   transformations, global_trace, dependencies, html, ref_path, result>>

\* calculate_node_levels, line 263
LevelsReturn ==
    /\ pc = "bfs"
    /\ queue = <<>>
    /\ pc' = IF entry = "generate" THEN "d3_nodes_links" ELSE "done"
    /\ UNCHANGED <<entry, raised, root, nodes, models, trace_models, executions,
                   transformations, global_trace, dependencies, queue, levels, html,
                   ref_path, result>>

\* generate_d3_html, lines 273-470
GenerateD3Html ==
    /\ pc = "d3_nodes_links"
    /\ \E r \in {generate_d3_html(models, trace_models, transformations, nodes,
                                  global_trace, levels)} :
          /\ html' = r.val
          /\ IF r.exc # "" THEN Raise(r.exc) ELSE pc' = "done" /\ raised' = raised
    /\ UNCHANGED <<entry, root, nodes, models, trace_models, executions, transformations,
                   global_trace, dependencies, queue, levels, ref_path, result>>

\* a call of resolve_reference
ResolveReference ==
    /\ pc = "resolve_reference"
    /\ result' = resolve_reference(ref_path)
    /\ pc' = "done"
    /\ UNCHANGED <<entry, raised, root, nodes, models, trace_models, executions,
                   transformations, global_trace, dependencies, queue, levels, html,
                   ref_path>>

\* a call of resolve_references_list, and a second call with the same argument
ResolveReferencesList ==
    /\ pc \in {"resolve_references_list", "resolve_references_list_again"}
    /\ result' = resolve_references_list(ref_path)
    /\ pc' = IF pc = "resolve_references_list" THEN "resolve_references_list_again" ELSE "done"
    /\ UNCHANGED <<entry, raised, root, nodes, models, trace_models, executions,
                   transformations, global_trace, dependencies, queue, levels, html,
                   ref_path>>

----------------------------------------------------------------------------
(* Specifications *)

\* the object after __init__, no method called yet
Constructed ==
    /\ raised = ""
    /\ nodes = EmptyDict
    /\ models = EmptyDict
    /\ trace_models = EmptyDict
    /\ executions = EmptyDict
    /\ transformations = EmptyDict
    /\ global_trace = NoTrace
    /\ queue = <<>>
    /\ levels = EmptyDict
    /\ html = NoHtml
    /\ result = [exc |-> "", val |-> NoneIdx]

\* the characters of the reference strings handed to the resolver alone
RefAlphabet == {"n", ".", "0", "7", " "}

RefStrings == UNION {[1..n -> RefAlphabet] : n \in 0..MaxRefLen}

\* resolve_reference called with None or with any short string
InitResolve ==
    /\ pc = "resolve_reference"
    /\ entry = "resolve_reference"
    /\ ref_path \in {NoneStr} \cup RefStrings
    /\ root = <<>>
    /\ dependencies = EmptyDict
    /\ Constructed

NextResolve == ResolveReference

SpecResolve == InitResolve /\ [][NextResolve]_vars

\* the references of the lists handed to resolve_references_list alone: two
\* well-formed ones, one without a dot, one whose last segment is no integer
RefTokens == {<<"n", ".", "7">>, <<"n", ".", "0">>, <<"7">>, <<"n">>, <<"n", ".", "n">>}

\* the tokens toks, each followed by the whitespace sep
RECURSIVE Spaced(_, _)
Spaced(toks, sep) ==
    IF toks = <<>> THEN <<>> ELSE toks[1] \o sep \o Spaced(Tail(toks), sep)

\* None, and the lists of up to MaxTokens references separated by one or two
\* blanks, with or without a leading blank
RefLists ==
    {NoneStr} \cup
    {lead \o Spaced(toks, sep) :
        lead \in {<<>>, <<" ">>}, sep \in {<<" ">>, <<" ", " ">>},
        toks \in UNION {[1..n -> RefTokens] : n \in 0..MaxTokens}}

\* resolve_references_list called twice with None or with a list of references
InitResolveList ==
    /\ pc = "resolve_references_list"
    /\ entry = "resolve_references_list"
    /\ ref_path \in RefLists
    /\ root = <<>>
    /\ dependencies = EmptyDict
    /\ Constructed

NextResolveList == ResolveReferencesList

SpecResolveList == InitResolveList /\ [][NextResolveList]_vars

\* a TraceModel entity of self.trace_models with no attribute set
BlankTrace(idx) ==
    [index |-> idx, name |-> NoName, conformsTo |-> NoneStr, ancestor |-> NoneStr,
     version |-> NoneStr, traced_rules |-> <<>>]

\* the adjacency map build_global_trace makes of a set of edges: keys with at least
\* one target, targets in ascending order
AdjacencyOf(edges) ==
    [a \in {e[1] : e \in edges} |-> SortedSeq({e[2] : e \in {f \in edges : f[1] = a}})]

LevelNodes == 0..(NumNodes - 1)

\* calculate_node_levels called with any dependency map over the TraceModels
InitLevels ==
    /\ pc = "calculate_node_levels"
    /\ entry = "calculate_node_levels"
    /\ \E edges \in SUBSET {e \in LevelNodes \X LevelNodes : e[1] # e[2]} :
          dependencies = AdjacencyOf(edges)
    /\ raised = ""
    /\ root = <<>>
    /\ nodes = EmptyDict
    /\ models = EmptyDict
    /\ trace_models = [idx \in LevelNodes |-> BlankTrace(idx)]
    /\ executions = EmptyDict
    /\ transformations = EmptyDict
    /\ global_trace = NoTrace
    /\ queue = <<>>
    /\ levels = EmptyDict
    /\ html = NoHtml
    /\ ref_path = NoneStr
    /\ result = [exc |-> "", val |-> NoneIdx]

NextLevels == CalculateNodeLevels \/ LevelsStep \/ LevelsReturn

SpecLevels == InitLevels /\ [][NextLevels]_vars

\* the method runs on until it returns: no step of it is postponed for ever
SpecLevelsFair == SpecLevels /\ WF_vars(NextLevels)

----------------------------------------------------------------------------
(* generate on a trace repository *)

NextGenerate ==
    \/ ParseNodes
    \/ ExtractModels
    \/ ExtractTraceModels
    \/ ExtractTransformationExecutions
    \/ ExtractTransformations
    \/ DebugReportStep
    \/ BuildGlobalTrace
    \/ GenerateD3HtmlCall
    \/ CalculateNodeLevels
    \/ LevelsStep
    \/ LevelsReturn
    \/ GenerateD3Html

\* generate called on the object constructed from the records rt
GenerateOn(rt) ==
    /\ pc = "parse_nodes"
    /\ entry = "generate"
    /\ root = rt
    /\ dependencies = EmptyDict
    /\ ref_path = NoneStr
    /\ Constructed

\* XML records
ModelRec(name, conformsTo, in) ==
    [BlankNode EXCEPT !.type = ModelType, !.name = name, !.conformsTo = conformsTo, !.In = in]

TransformationRec(name, exec, in, out) ==
    [BlankNode EXCEPT !.type = TransformationType, !.name = name, !.exec = exec,
                      !.IN_ = in, !.OUT = out]

ExecutionRec(name, generates) ==
    [BlankNode EXCEPT !.type = ExecutionType, !.name = name, !.generates = generates]

TraceRec(name, version, ancestor) ==
    [BlankNode EXCEPT !.type = TraceModelType, !.name = name, !.version = version,
                      !.ancestor = ancestor]

\* two references in one attribute
Both(a, b) == a \o <<" ">> \o b

\* the end-to-end scenario: T1 writes M1, T2 reads M1, each executed once; p gives
\* the positions of the records M1, T1, T2, E1, E2, Tr1, Tr2, the TraceModels carry the versions v1 and v2, and
\* T2's input is declared by T2 (IN) or by M1 (In)
Scenario(p, v1, v2, onModel) ==
    LET rec == <<ModelRec("M1", NoneStr, IF onModel THEN NodesRef(p[3]) ELSE NoneStr),
                 TransformationRec("T1", NodesRef(p[4]), NoneStr, NodesRef(p[1])),
                 TransformationRec("T2", NodesRef(p[5]),
                                   IF onModel THEN NoneStr ELSE NodesRef(p[1]), NoneStr),
                 ExecutionRec("E1", NodesRef(p[6])),
                 ExecutionRec("E2", NodesRef(p[7])),
                 TraceRec("Tr1", v1, NoneStr),
                 TraceRec("Tr2", v2, NoneStr)>>
    IN [i \in 1..Len(rec) |-> rec[CHOOSE k \in 1..Len(rec) : p[k] = i - 1]]

InitE2E ==
    \E p \in Orders(0..6), v \in {NoneStr, Str(1)}, onModel \in BOOLEAN :
        GenerateOn(Scenario(p, v, v, onModel))

SpecE2E == InitE2E /\ [][NextGenerate]_vars

\* the references to the records idxs, in one attribute (None when there is none)
RECURSIVE JoinRefs(_)
JoinRefs(idxs) ==
    IF idxs = <<>> THEN NoneStr
    ELSE IF Len(idxs) = 1 THEN NodesRef(idxs[1])
    ELSE Both(JoinRefs(SubSeq(idxs, 1, Len(idxs) - 1)), NodesRef(idxs[Len(idxs)]))

VersionChoices == {NoneStr} \cup {Str(v) : v \in 1..MaxVersion}

\* records 0-1 Transformations, 2-4 executions, 5-7 the TraceModels they generate;
\* owner[k] is the Transformation (0 or 1, or 2 for none) that lists execution 2+k,
\* version[k] the version attribute of TraceModel 5+k
VersionStore(owner, version) ==
    LET execsOf(t) == JoinRefs(SortedSeq({2 + k : k \in {j \in 0..2 : owner[j] = t}}))
    IN <<TransformationRec("T0", execsOf(0), NoneStr, NoneStr),
         TransformationRec("T1", execsOf(1), NoneStr, NoneStr),
         ExecutionRec("E0", NodesRef(5)),
         ExecutionRec("E1", NodesRef(6)),
         ExecutionRec("E2", NodesRef(7)),
         TraceRec("Tr0", version[0], NoneStr),
         TraceRec("Tr1", version[1], NoneStr),
         TraceRec("Tr2", version[2], NoneStr)>>

InitVersions ==
    \E owner \in [0..2 -> 0..2], version \in [0..2 -> VersionChoices] :
        GenerateOn(VersionStore(owner, version))

SpecVersions == InitVersions /\ [][NextGenerate]_vars

\* a reference without a dot, which resolve_reference resolves to None
Dotless == <<"x">>

\* what the IN and OUT attributes of the dependency stores hold: nothing, one or
\* both of the Models 0 and 1, or a reference without a dot
ModelRefChoices == {NoneStr, NodesRef(0), NodesRef(1), Both(NodesRef(0), NodesRef(1)), Dotless}

\* records 0-1 Models, 2-3 Transformations, 4-6 executions, 7-9 the TraceModels they
\* generate; T0 was executed twice (TraceModels 7 and 9), T1 once (TraceModel 8)
DependencyStore(in0, out0, in1, out1, anc8, anc9, v9) ==
    <<ModelRec("M0", NoneStr, NoneStr),
      ModelRec("M1", NoneStr, NoneStr),
      TransformationRec("T0", Both(NodesRef(4), NodesRef(6)), in0, out0),
      TransformationRec("T1", NodesRef(5), in1, out1),
      ExecutionRec("E0", NodesRef(7)),
      ExecutionRec("E1", NodesRef(8)),
      ExecutionRec("E2", NodesRef(9)),
      TraceRec("Tr0", Str(1), NoneStr),
      TraceRec("Tr1", Str(1), anc8),
      TraceRec("Tr2", v9, anc9)>>

InitDeps ==
    \E in0 \in ModelRefChoices, out0 \in ModelRefChoices,
       in1 \in ModelRefChoices, out1 \in ModelRefChoices,
       anc8 \in {NoneStr, NodesRef(7)}, anc9 \in {NoneStr, NodesRef(7), NodesRef(8)},
       v9 \in {Str(1), Str(2)} :
        GenerateOn(DependencyStore(in0, out0, in1, out1, anc8, anc9, v9))

SpecDeps == InitDeps /\ [][NextGenerate]_vars

\* what the In attribute of a Model of the merge stores holds: nothing, the empty
\* string, one or both Transformations, one twice, a Model, a position past the
\* end of the store, or a reference without a dot
InChoices ==
    {NoneStr, <<>>, NodesRef(2), NodesRef(3), Both(NodesRef(2), NodesRef(3)),
     Both(NodesRef(3), NodesRef(3)), NodesRef(1), NodesRef(8), Dotless}

\* what the IN attribute of a Transformation of the merge stores holds
OwnInChoices ==
    {NoneStr, <<>>, NodesRef(0), NodesRef(1), Both(NodesRef(1), NodesRef(0)), <<" ">>}

\* records 0-1 Models, 2-3 Transformations (T0 writes Model 1, T1 writes Model 0),
\* 4-5 their executions, 6-7 the TraceModels they generate
MergeStore(modelIn0, modelIn1, in0, in1) ==
    <<ModelRec("M0", NoneStr, modelIn0),
      ModelRec("M1", NoneStr, modelIn1),
      TransformationRec("T0", NodesRef(4), in0, NodesRef(1)),
      TransformationRec("T1", NodesRef(5), in1, NodesRef(0)),
      ExecutionRec("E0", NodesRef(6)),
      ExecutionRec("E1", NodesRef(7)),
      TraceRec("Tr0", Str(1), NoneStr),
      TraceRec("Tr1", Str(1), NoneStr)>>

InitMerge ==
    \E modelIn0 \in InChoices, modelIn1 \in InChoices,
       in0 \in OwnInChoices, in1 \in OwnInChoices :
        GenerateOn(MergeStore(modelIn0, modelIn1, in0, in1))

SpecMerge == InitMerge /\ [][NextGenerate]_vars

\* what the exec attribute of a Transformation of the chain stores holds
ExecChoices ==
    {NoneStr, NodesRef(2), NodesRef(3), NodesRef(4), Both(NodesRef(2), NodesRef(3)),
     Both(NodesRef(4), NodesRef(2)), Both(NodesRef(3), NodesRef(4)), Dotless}

\* what the generates attribute of an execution of the chain stores holds
GeneratesChoices == {NoneStr, NodesRef(5), NodesRef(6), Dotless}

\* records 0-1 Transformations, 2-4 executions, 5-6 TraceModels; several executions
\* may generate one TraceModel and several Transformations may list one execution
ChainStore(exec0, exec1, gen) ==
    <<TransformationRec("T0", exec0, NoneStr, NoneStr),
      TransformationRec("T1", exec1, NoneStr, NoneStr),
      ExecutionRec("E0", gen[0]),
      ExecutionRec("E1", gen[1]),
      ExecutionRec("E2", gen[2]),
      TraceRec("Tr0", Str(1), NoneStr),
      TraceRec("Tr1", Str(1), NoneStr)>>

InitChain ==
    \E exec0 \in ExecChoices, exec1 \in ExecChoices, gen \in [0..2 -> GeneratesChoices] :
        GenerateOn(ChainStore(exec0, exec1, gen))

SpecChain == InitChain /\ [][NextGenerate]_vars

\* a traceLinks element between two model elements
LinkRec(name) ==
    [name |-> name, sourceElementPath |-> <<"s">>, targetElementPath |-> <<"t">>,
     sourceAttribute |-> NoneStr, targetAttribute |-> NoneStr]

\* a TraceModel record with one rule that holds one element link
TraceRecWithLink(name, version) ==
    [TraceRec(name, version, NoneStr) EXCEPT
        !.contains = <<[name |-> "R", trace_links |-> <<LinkRec("L")>>]>>]

\* what the IN and OUT attributes of the cycle stores hold: nothing or one Model
OneModelChoices == {NoneStr, NodesRef(0), NodesRef(1), NodesRef(2)}

\* records 0-2 Models, 3-5 Transformations, 6-8 their executions, 9-11 the
\* TraceModels they generate; in[k] and out[k] are the IN and OUT of Transformation
\* 3+k, so the dependencies may form cycles
CycleStore(in, out) ==
    <<ModelRec("M0", NoneStr, NoneStr),
      ModelRec("M1", NoneStr, NoneStr),
      ModelRec("M2", NoneStr, NoneStr),
      TransformationRec("T0", NodesRef(6), in[0], out[0]),
      TransformationRec("T1", NodesRef(7), in[1], out[1]),
      TransformationRec("T2", NodesRef(8), in[2], out[2]),
      ExecutionRec("E0", NodesRef(9)),
      ExecutionRec("E1", NodesRef(10)),
      ExecutionRec("E2", NodesRef(11)),
      TraceRecWithLink("Tr0", Str(1)),
      TraceRecWithLink("Tr1", Str(1)),
      TraceRecWithLink("Tr2", Str(1))>>

InitCycles ==
    \E in \in [0..2 -> OneModelChoices], out \in [0..2 -> OneModelChoices] :
        GenerateOn(CycleStore(in, out))

SpecCycles == InitCycles /\ [][NextGenerate]_vars

\* a reference whose last segment is no integer
Malformed == <<"/", "/", "@", "n", "o", "d", "e", "s", ".", "x">>

\* the reference attributes of the reference stores that may be replaced
RefSlots == {"conformsTo", "In", "exec", "OUT", "IN", "generates", "ancestor"}

\* records: 0 a metamodel, 1 a Model conforming to it, 2-3 Transformations (T1
\* writes the Model, T2 reads it), 4-5 their executions, 6-7 the TraceModels they
\* generate, 7 naming 6 as its ancestor; the attributes in bad hold the reference
\* wrong instead
ReferenceStore(bad, wrong) ==
    LET at(slot, good) == IF slot \in bad THEN wrong ELSE good
    IN <<[BlankNode EXCEPT !.name = "MM"],
         ModelRec("M1", at("conformsTo", NodesRef(0)), at("In", NoneStr)),
         TransformationRec("T1", at("exec", NodesRef(4)), NoneStr, at("OUT", NodesRef(1))),
         TransformationRec("T2", NodesRef(5), at("IN", NodesRef(1)), NoneStr),
         ExecutionRec("E1", at("generates", NodesRef(6))),
         ExecutionRec("E2", NodesRef(7)),
         TraceRec("Tr1", Str(1), NoneStr),
         TraceRec("Tr2", Str(1), at("ancestor", NodesRef(6)))>>

\* the wrong reference is malformed, or resolves to position 8, past the end of the store
InitRefs ==
    \E bad \in SUBSET RefSlots, wrong \in {Malformed, NodesRef(8)} :
        GenerateOn(ReferenceStore(bad, wrong))

SpecRefs == InitRefs /\ [][NextGenerate]_vars

----------------------------------------------------------------------------
(* Properties of calculate_node_levels *)

\* calculate_node_levels has returned
LevelsReturned ==
    \/ entry = "calculate_node_levels" /\ pc = "done"
    \/ entry = "generate" /\ pc \in {"d3_nodes_links", "done"}

EdgesOf(deps) == UNION {{<<a, deps[a][i]>> : i \in 1..Len(deps[a])} : a \in DOMAIN deps}

RECURSIVE TransitiveClosure(_)
TransitiveClosure(R) ==
    LET step == R \cup UNION {{<<e[1], f[2]>> : f \in {g \in R : g[1] = e[2]}} : e \in R}
    IN IF step = R THEN R ELSE TransitiveClosure(step)

Acyclic(deps) == \A e \in TransitiveClosure(EdgesOf(deps)) : e[1] # e[2]

Predecessors(deps, v) == {e[1] : e \in {f \in EdgesOf(deps) : f[2] = v}}

SetMax(S) == CHOOSE x \in S : \A y \in S : y <= x

\* the length of the longest path that ends in v, in an acyclic map; such a path
\* starts in a node without incoming edge
RECURSIVE LongestPathTo(_, _)
LongestPathTo(deps, v) ==
    IF Predecessors(deps, v) = {} THEN 0
    ELSE 1 + SetMax({LongestPathTo(deps, p) : p \in Predecessors(deps, v)})

\* C1: for an acyclic dependency map, calculate_node_levels returns for every
\* TraceModel the length of the longest dependency path from a source node to it.
C1_LongestPathLevels ==
    (LevelsReturned /\ Acyclic(dependencies)) =>
        \A v \in DOMAIN trace_models :
            v \in DOMAIN levels /\ levels[v] = LongestPathTo(dependencies, v)

\* the edges 0->1, 0->2, 2->1 of the example: node 1 has level 2
C1_Witness ==
    /\ LevelsReturned
    /\ dependencies = AdjacencyOf({<<0, 1>>, <<0, 2>>, <<2, 1>>})
    /\ levels[1] = 2 /\ levels[2] = 1 /\ levels[0] = 0

\* C12: for every acyclic dependency map the breadth-first loop of
\* calculate_node_levels terminates: the queue eventually becomes empty and the
\* method returns.
C12_Terminates ==
    (entry = "calculate_node_levels" /\ Acyclic(dependencies))
        ~> (pc = "done" /\ queue = <<>>)

\* the chain 0 -> 1 -> 2 with the shortcut 0 -> 2: the loop has ended, after
\* visiting node 2 twice
C12_Witness ==
    /\ entry = "calculate_node_levels" /\ pc = "done" /\ queue = <<>>
    /\ dependencies = AdjacencyOf({<<0, 1>>, <<1, 2>>, <<0, 2>>})
    /\ levels = [n \in LevelNodes |-> n]

\* C13: when the dependency map has no edge, every TraceModel is a source node and
\* calculate_node_levels returns level 0 for every TraceModel index.
C13_NoEdgesAllZero ==
    (entry = "calculate_node_levels" /\ EdgesOf(dependencies) = {}) =>
        /\ SourceNodes(trace_models, dependencies) = DOMAIN trace_models
        /\ pc = "bfs" => \A i \in 1..Len(queue) : queue[i][2] = 0
        /\ LevelsReturned => levels = [v \in DOMAIN trace_models |-> 0]

\* the method has returned on the empty dependency map, every TraceModel at level 0
C13_Witness ==
    /\ entry = "calculate_node_levels" /\ pc = "done"
    /\ dependencies = EmptyDict
    /\ DOMAIN levels = LevelNodes
    /\ \A v \in LevelNodes : levels[v] = 0

\* the nodes a source node leads to, the source nodes included
ReachableFromSource(tms, deps) ==
    SourceNodes(tms, deps)
    \cup {e[2] : e \in {f \in TransitiveClosure(EdgesOf(deps)) : f[1] \in SourceNodes(tms, deps)}}

\* some node that a source node leads to lies on a cycle
CycleReachable(tms, deps) ==
    \E v \in ReachableFromSource(tms, deps) : <<v, v>> \in TransitiveClosure(EdgesOf(deps))

\* C17 as stated: whenever the dependency map contains a cycle, the loop never
\* empties its queue and calculate_node_levels does not return.
C17_AsStated ==
    (entry = "calculate_node_levels" /\ ~Acyclic(dependencies)) =>
        /\ pc # "done"
        /\ pc = "bfs" => queue # <<>>

\* the loop never ends when a source node leads to a cycle
ReachableCycleDiverges ==
    (entry = "calculate_node_levels" /\ CycleReachable(trace_models, dependencies)) =>
        /\ pc # "done"
        /\ pc = "bfs" => queue # <<>>

\* C17: whenever a source node leads to a cycle of the dependency map, the loop
\* never empties its queue and calculate_node_levels does not return; when no source
\* node leads to a cycle, as on every acyclic map and on a map whose cycles no
\* source node reaches, it returns.
C17_DivergesIffReachableCycle ==
    /\ []ReachableCycleDiverges
    /\ (entry = "calculate_node_levels" /\ ~CycleReachable(trace_models, dependencies))
          ~> (pc = "done" /\ queue = <<>>)

\* the source 0 leads to the cycle 1 -> 2 -> 1: the queue is not empty and the head
\* of the queue has passed every level a path without repetition could give
C17_Witness ==
    /\ entry = "calculate_node_levels" /\ pc = "bfs"
    /\ dependencies = AdjacencyOf({<<0, 1>>, <<1, 2>>, <<2, 1>>})
    /\ queue # <<>>
    /\ queue[1][2] > MaxLevel

\* C20: for every acyclic dependency map the levels returned by
\* calculate_node_levels put the target of every dependency edge at least one level
\* above its origin, and every source node at level 0.
C20_EdgesGoUp ==
    (LevelsReturned /\ Acyclic(dependencies)) =>
        /\ \A e \in EdgesOf(dependencies) :
              /\ {e[1], e[2]} \subseteq DOMAIN levels
              /\ levels[e[2]] >= levels[e[1]] + 1
        /\ \A src \in SourceNodes(trace_models, dependencies) :
              src \in DOMAIN levels /\ levels[src] = 0

\* the edges 1 -> 0, 1 -> 2 and 0 -> 2: the source 1 stands at level 0, and node 2,
\* first reached at level 1, stands above node 0
C20_Witness ==
    /\ LevelsReturned
    /\ dependencies = AdjacencyOf({<<1, 0>>, <<1, 2>>, <<0, 2>>})
    /\ levels[1] = 0 /\ levels[0] = 1 /\ levels[2] = 2

\* every queued pair of a source node has level 0, and every queued pair of another
\* node has a level one above a level that a predecessor of the node has reached
QueuedFromPredecessors ==
    (entry = "calculate_node_levels" /\ pc = "bfs") =>
        \A i \in 1..Len(queue) :
            IF queue[i][1] \in SourceNodes(trace_models, dependencies)
            THEN queue[i][2] = 0
            ELSE /\ queue[i][2] >= 1
                 /\ \E p \in Predecessors(dependencies, queue[i][1]) :
                       p \in DOMAIN levels /\ levels[p] >= queue[i][2] - 1

\* one iteration of the loop: no recorded level decreases; either nothing is
\* recorded and nothing enqueued, or the dequeued node gets the dequeued level,
\* which it had not or which is greater than the one it had, and the pairs enqueued
\* are dependents of that node at the level just recorded plus 1
LoopStepMonotone ==
    (entry = "calculate_node_levels" /\ pc = "bfs" /\ pc' = "bfs") =>
        /\ \A n \in DOMAIN levels : n \in DOMAIN levels' /\ levels'[n] >= levels[n]
        /\ IF levels' = levels
           THEN queue' = Tail(queue)
           ELSE /\ queue[1][1] \notin DOMAIN levels \/ levels[queue[1][1]] < levels'[queue[1][1]]
                /\ levels'[queue[1][1]] = queue[1][2]
                /\ \A n \in DOMAIN levels' \ {queue[1][1]} :
                      n \in DOMAIN levels /\ levels'[n] = levels[n]
                /\ Len(queue') >= Len(queue) - 1
                /\ SubSeq(queue', 1, Len(queue) - 1) = Tail(queue)
                /\ \A i \in Len(queue)..Len(queue') :
                      /\ queue[1][1] \in Predecessors(dependencies, queue'[i][1])
                      /\ queue'[i][2] = levels'[queue[1][1]] + 1

\* C23: during the loop of calculate_node_levels the recorded level of a node never
\* decreases from one step to the next, the dependents of a node are enqueued only
\* in a step that records or raises the level of that node, and every queued pair
\* of a node that is no source node has a level that is 1 plus a level recorded for
\* one of its predecessors.
C23_LoopInvariants ==
    /\ []QueuedFromPredecessors
    /\ [][LoopStepMonotone]_vars

\* the source 0 leads to the cycle 1 -> 2 -> 1: node 1 has been raised from level 1
\* to level 3, and its dependent 2 is queued at level 4
C23_Witness ==
    /\ entry = "calculate_node_levels" /\ pc = "bfs"
    /\ dependencies = AdjacencyOf({<<0, 1>>, <<1, 2>>, <<2, 1>>})
    /\ levels = (0 :> 0) @@ (1 :> 3) @@ (2 :> 2)
    /\ queue = <<<<2, 4>>>>

----------------------------------------------------------------------------
(* Properties of the reference resolver *)

ResolveReturned == entry = "resolve_reference" /\ pc = "done"

\* the part of s after its last dot, the whole of s when it has no dot
LastSegment(s) ==
    LET k == CHOOSE n \in 0..Len(s) :
                 /\ \A j \in (Len(s) - n + 1)..Len(s) : s[j] # "."
                 /\ (n = Len(s) \/ s[Len(s) - n] = ".")
    IN SubSeq(s, Len(s) - k + 1, Len(s))

Numeric(seg) == seg # <<>> /\ \A i \in 1..Len(seg) : IsDigit(seg[i])

\* the numeral seg denotes n: seg is str(n) behind any number of zeros
Denotes(seg, n) ==
    \E z \in 0..(Len(seg) - 1) :
        /\ \A i \in 1..z : seg[i] = "0"
        /\ SubSeq(seg, z + 1, Len(seg)) = Str(n)

\* C10 as stated: every non-empty path whose last segment is numeric resolves to
\* the integer its last segment denotes, a path without a dot being its own last
\* segment; None and the empty string resolve to None.
C10_AsStated ==
    ResolveReturned =>
        /\ Falsy(ref_path) => result = [exc |-> "", val |-> NoneIdx]
        /\ (~Falsy(ref_path) /\ Numeric(LastSegment(ref_path))) =>
              result.exc = "" /\ result.val >= 0 /\ Denotes(LastSegment(ref_path), result.val)

\* C10: a path that contains a dot and whose last segment is numeric resolves to the
\* integer its last segment denotes; None, the empty string and every path without
\* a dot resolve to None.
C10_DottedNumeric ==
    ResolveReturned =>
        /\ Falsy(ref_path) => result = [exc |-> "", val |-> NoneIdx]
        /\ (~Falsy(ref_path) /\ ~HasDot(ref_path)) => result = [exc |-> "", val |-> NoneIdx]
        /\ (~Falsy(ref_path) /\ HasDot(ref_path) /\ Numeric(LastSegment(ref_path))) =>
              result.exc = "" /\ result.val >= 0 /\ Denotes(LastSegment(ref_path), result.val)

\* "n.7" has resolved to 7
C10_Witness ==
    /\ ResolveReturned
    /\ ref_path = <<"n", ".", "7">>
    /\ result = [exc |-> "", val |-> 7]

\* resolve_references_list has returned
ListReturned ==
    /\ entry = "resolve_references_list"
    /\ pc \in {"resolve_references_list_again", "done"}

\* the words of s: its maximal runs of characters other than the blank, in order
RECURSIVE WordsOf(_)
WordsOf(s) ==
    IF s = <<>> THEN <<>>
    ELSE IF s[1] = " " THEN Strict(Tail(s), WordsOf)
    ELSE Strict(CHOOSE k \in 1..Len(s) :
                    /\ \A j \in 1..k : s[j] # " "
                    /\ (k = Len(s) \/ s[k + 1] = " "),
                LAMBDA n : <<SubSeq(s, 1, n)>> \o Strict(SubSeq(s, n + 1, Len(s)), WordsOf))

\* a reference with a dot whose last segment is no integer
MalformedToken(tok) == HasDot(tok) /\ ~Numeric(LastSegment(tok))

C11_TokenWise ==
    ListReturned =>
        /\ Falsy(ref_path) => result = [exc |-> "", val |-> <<>>]
        /\ ~Falsy(ref_path) =>
              IF \E i \in 1..Len(WordsOf(ref_path)) : MalformedToken(WordsOf(ref_path)[i])
              THEN result.exc = "ValueError"
              ELSE /\ result.exc = ""
                   /\ Len(result.val) = Len(WordsOf(ref_path))
                   /\ \A i \in 1..Len(result.val) :
                         IF HasDot(WordsOf(ref_path)[i])
                         THEN /\ result.val[i] >= 0
                              /\ Denotes(LastSegment(WordsOf(ref_path)[i]), result.val[i])
                         ELSE result.val[i] = NoneIdx

----------------------------------------------------------------------------
(* Properties of generate *)

\* the position of the record called name
IdxOf(name) == CHOOSE i \in DOMAIN nodes : nodes[i].name = name

\* build_global_trace has returned
BuildReturned ==
    /\ entry = "generate"
    /\ pc \in {"generate_d3_html", "calculate_node_levels", "bfs", "d3_nodes_links", "done"}

\* C3 as stated: on the end-to-end scenario, wherever its records stand, the
\* pipeline does not fail and yields exactly the dependency edge Tr1 -> Tr2 and the
\* levels Tr1 = 0, Tr2 = 1.
C3_AsStated ==
    entry = "generate" =>
        /\ pc # "raised"
        /\ BuildReturned =>
              global_trace.trace_dependencies =
                  [a \in {IdxOf("Tr1")} |-> <<IdxOf("Tr2")>>]
        /\ (BuildReturned /\ LevelsReturned) =>
              /\ DOMAIN levels = {IdxOf("Tr1"), IdxOf("Tr2")}
              /\ levels[IdxOf("Tr1")] = 0
              /\ levels[IdxOf("Tr2")] = 1

\* the TraceModels mapped to Transformation t
MappedTo(t) ==
    {tr \in DOMAIN global_trace.trace_to_transformation :
        global_trace.trace_to_transformation[tr] = t}

MappedTransformations ==
    {global_trace.trace_to_transformation[tr] : tr \in DOMAIN global_trace.trace_to_transformation}

\* the value of the version field of TraceModel tr
VersionValue(tr) == IntOf(trace_models[tr].version).val

\* among the TraceModels S, the first in record order of those whose version,
\* read by value(_), is greatest
FirstGreatest(S, value(_)) ==
    CHOOSE tr \in S :
        /\ \A other \in S : value(other) <= value(tr)
        /\ \A other \in S : value(other) = value(tr) => tr <= other

\* C5: the latest TraceModel of a Transformation is the one of greatest version
\* value among those mapped to it, the first in record order when several share
\* that value.
C5_LatestByValue ==
    BuildReturned =>
        /\ DOMAIN global_trace.trans_to_latest_trace = MappedTransformations
        /\ \A t \in MappedTransformations :
              global_trace.trans_to_latest_trace[t][1] = FirstGreatest(MappedTo(t), VersionValue)
        /\ global_trace.latest_trace_indices =
              {FirstGreatest(MappedTo(t), VersionValue) : t \in MappedTransformations}

\* the example [(idx=5,v=1), (idx=6,v=3), (idx=7,v=2)] of one Transformation: latest is 6
C5_Witness ==
    /\ BuildReturned
    /\ MappedTo(0) = {5, 6, 7}
    /\ VersionValue(5) = 1 /\ VersionValue(6) = 3 /\ VersionValue(7) = 2
    /\ global_trace.latest_trace_indices = {6}

\* the version of TraceModel tr, an absent version counting as 1
VersionOrDefault(tr) ==
    IF trace_models[tr].version = NoneStr THEN 1 ELSE IntOf(trace_models[tr].version).val

\* C6 as stated: when a TraceModel record carries no version attribute,
\* build_global_trace completes and selects the latest versions as if that version
\* were 1.
C6_AsStated ==
    (entry = "generate" /\ \E i \in 1..Len(root) :
                               root[i].type = TraceModelType /\ root[i].version = NoneStr) =>
        /\ pc # "raised"
        /\ BuildReturned =>
              global_trace.latest_trace_indices =
                  {FirstGreatest(MappedTo(t), VersionOrDefault) : t \in MappedTransformations}

\* B is a target of A in trace_dependencies
InDeps(A, B) ==
    /\ A \in DOMAIN global_trace.trace_dependencies
    /\ InList(B, global_trace.trace_dependencies[A])

\* the record the ancestor reference of TraceModel B resolves to (NoneIdx: none)
AncestorOf(B) ==
    IF Falsy(trace_models[B].ancestor) THEN NoneIdx
    ELSE resolve_reference(trace_models[B].ancestor).val

\* the indices the OUT (IN) references of the Transformation of TraceModel A resolve to
OutIndices(A) ==
    LET r == resolve_references_list(
                 transformations[global_trace.trace_to_transformation[A]].OUT).val
    IN {r[i] : i \in {j \in 1..Len(r) : r[j] # NoneIdx}}

InIndices(B) ==
    LET r == resolve_references_list(
                 transformations[global_trace.trace_to_transformation[B]].IN_).val
    IN {r[i] : i \in {j \in 1..Len(r) : r[j] # NoneIdx}}

\* C2: for distinct mapped TraceModels A and B, A latest for its Transformation and
\* neither the ancestor of the other, B is a target of A in trace_dependencies if
\* and only if an index resolved from the OUT references of A's Transformation is
\* among the indices resolved from the IN references of B's Transformation.
C2_EdgeIffSharedModel ==
    BuildReturned =>
        \A A \in DOMAIN global_trace.trace_to_transformation,
           B \in DOMAIN global_trace.trace_to_transformation :
            (/\ A # B
             /\ A \in global_trace.latest_trace_indices
             /\ AncestorOf(A) # B
             /\ AncestorOf(B) # A)
            => (InDeps(A, B) <=> OutIndices(A) \cap InIndices(B) # {})

\* T1 (TraceModel 8) writes Models 0 and 1, T0 (latest TraceModel 9) reads Model 1
\* only: the edge 8 -> 9 is there, and no edge 9 -> 8
C2_Witness ==
    /\ BuildReturned
    /\ 9 \in global_trace.latest_trace_indices
    /\ AncestorOf(9) = NoneIdx /\ AncestorOf(8) = NoneIdx
    /\ OutIndices(8) = {0, 1} /\ InIndices(9) = {1} /\ OutIndices(9) = {}
    /\ InDeps(8, 9) /\ ~InDeps(9, 8)

\* the edges of the output that join the trace nodes of A and B
EdgesBetween(A, B) ==
    LET all == html.links_data \o html.ancestor_links
    IN {all[i] : i \in {j \in 1..Len(all) :
                          {all[j].source, all[j].target} = {<<"trace", A>>, <<"trace", B>>}}}

\* C4: when the ancestor reference of TraceModel B resolves to TraceModel A,
\* trace_dependencies holds neither A -> B nor B -> A, and the only edge between
\* them in the output is the evolution edge A -> B.
C4_AncestorExclusion ==
    \A B \in DOMAIN trace_models :
        (AncestorOf(B) \in DOMAIN trace_models) =>
            LET A == AncestorOf(B)
            IN /\ BuildReturned => ~InDeps(A, B) /\ ~InDeps(B, A)
               /\ (entry = "generate" /\ pc = "done") =>
                     EdgesBetween(A, B) =
                        {[source |-> <<"trace", A>>, target |-> <<"trace", B>>,
                          type |-> "evolution"]}

\* TraceModel 9, the latest of T0, names 7 as its ancestor, and T0 reads the Model
\* it writes: generate has ended with the evolution edge only
C4_Witness ==
    /\ entry = "generate" /\ pc = "done"
    /\ AncestorOf(9) = 7
    /\ 9 \in global_trace.latest_trace_indices
    /\ OutIndices(9) \cap InIndices(7) # {}
    /\ ~InDeps(9, 7) /\ ~InDeps(7, 9)
    /\ Len(html.ancestor_links) >= 1

\* extract_transformations has returned
ExtractReturned ==
    /\ entry = "generate"
    /\ pc \in {"debug_report", "build_global_trace", "generate_d3_html",
               "calculate_node_levels", "bfs", "d3_nodes_links", "done"}

\* how many references of the In attribute of Model record m resolve to t
FeedCount(m, t) ==
    LET r == resolve_references_list(nodes[m].In).val
    IN Cardinality({i \in 1..Len(r) : r[i] = t})

\* the Models whose In references Transformation t, in record order, each as often
\* as it references t
FedBy(t) ==
    LET copies(m) == [i \in 1..FeedCount(m, t) |-> m]
    IN Flatten(ForKeys(OfType(nodes, ModelType), copies))

\* the tokens toks in one attribute, None when there is none
RECURSIVE JoinTokens(_)
JoinTokens(toks) ==
    IF toks = <<>> THEN NoneStr
    ELSE IF Len(toks) = 1 THEN toks[1]
    ELSE Both(JoinTokens(SubSeq(toks, 1, Len(toks) - 1)), toks[Len(toks)])

\* the attribute ref without its references to t
WithoutRefsTo(ref, t) ==
    IF Falsy(ref) THEN ref
    ELSE JoinTokens(SelectSeq(SplitWS(ref), LAMBDA tok : resolve_reference(tok).val # t))

\* the store in which Transformation t declares by its own IN what the Models'
\* In attributes say of it, and no In attribute references t
DeclaredDirectly(t) ==
    [i \in DOMAIN nodes |->
        IF i = t THEN [nodes[i] EXCEPT !.IN_ = JoinRefs(FedBy(t))]
        ELSE IF nodes[i].type = ModelType
        THEN [nodes[i] EXCEPT !.In = WithoutRefsTo(@, t)]
        ELSE nodes[i]]

\* C7: after extract_transformations the resolved IN references of a Transformation
\* are the references of its own IN attribute, in their order, followed by the
\* Models whose In references it, so they contain every such Model; and when its
\* own IN was empty the Transformation, and the dependencies inferred, are those of
\* the store in which it declares these Models by IN directly.
C7_DialectMerge ==
    ExtractReturned =>
        \A t \in DOMAIN transformations :
            /\ resolve_references_list(transformations[t].IN_).val =
                   resolve_references_list(nodes[t].IN_).val \o FedBy(t)
            /\ \A m \in OfType(nodes, ModelType) :
                   FeedCount(m, t) > 0 =>
                       InList(m, resolve_references_list(transformations[t].IN_).val)
            /\ (Falsy(nodes[t].IN_) /\ FedBy(t) # <<>>) =>
                   LET direct == extract_transformations(DeclaredDirectly(t)).val
                   IN /\ direct = transformations
                      /\ BuildReturned =>
                            build_global_trace(trace_models, executions, direct).val
                                = global_trace

\* the Model at 1 has In = "//@nodes.3", the Transformation at 3 an empty IN and the
\* Model at 0 feeds it too: after extraction its inputs are the Models 0 and 1, and
\* the dependency 6 -> 7 that Model 1 carries is inferred
C7_Witness ==
    /\ entry = "generate" /\ pc = "done"
    /\ nodes[1].In = NodesRef(3) /\ nodes[0].In = NodesRef(3)
    /\ Falsy(nodes[3].IN_)
    /\ resolve_references_list(transformations[3].IN_).val = <<0, 1>>
    /\ InDeps(6, 7)

\* the references of record rec, one list per attribute
ResolvedAttributes(rec) ==
    <<resolve_references_list(rec.conformsTo), resolve_references_list(rec.In),
      resolve_references_list(rec.ancestor), resolve_references_list(rec.generates),
      resolve_references_list(rec.exec), resolve_references_list(rec.IN_),
      resolve_references_list(rec.OUT)>>

\* some reference of the store is malformed
HasMalformedReference ==
    \E i \in 1..Len(root) : \E k \in 1..7 : ResolvedAttributes(root[i])[k].exc = "ValueError"

\* every reference of the store resolves to an integer, and one of them to an
\* integer that is no position of the store
HasUnresolvedEntity ==
    /\ ~HasMalformedReference
    /\ \A i \in 1..Len(root) : \A k \in 1..7 :
          ~InList(NoneIdx, ResolvedAttributes(root[i])[k].val)
    /\ \E i \in 1..Len(root) : \E k \in 1..7 :
          \E j \in 1..Len(ResolvedAttributes(root[i])[k].val) :
              ResolvedAttributes(root[i])[k].val[j] \notin 0..(Len(root) - 1)

\* C8 as stated: with a malformed reference in a reference attribute, extraction and
\* build_global_trace (and with them generate) complete without raising.
C8_AsStated ==
    (entry = "generate" /\ HasMalformedReference) => pc # "raised"

\* C9 as stated: with a reference that resolves to an index that is no position of
\* the store, no lookup of a full run of generate raises.
C9_AsStated ==
    (entry = "generate" /\ HasUnresolvedEntity) => pc # "raised"

\* generate has returned
GenerateReturned == entry = "generate" /\ pc = "done"

\* the trace nodes of the output that stand for TraceModel tr
TraceNodesOf(tr) == {i \in 1..Len(html.trace_nodes) : html.trace_nodes[i].id = <<"trace", tr>>}

\* the names of the records the references of ref resolve to
ReferencedNames(ref) == NamesOf(resolve_references_list(ref).val, nodes)

\* C14 as stated: every TraceModel has exactly one trace node; the node of a
\* TraceModel that trace_to_transformation maps to a Transformation carries that
\* Transformation's name and its input and output model names, wherever the
\* Transformation stands in the store, and the node of a TraceModel that is not
\* mapped carries 'Unknown' and empty lists.
C14_AsStated ==
    GenerateReturned =>
        \A tr \in DOMAIN trace_models :
            /\ Cardinality(TraceNodesOf(tr)) = 1
            /\ \A i \in TraceNodesOf(tr) :
                  IF tr \in DOMAIN global_trace.trace_to_transformation
                  THEN LET td == transformations[global_trace.trace_to_transformation[tr]]
                       IN /\ html.trace_nodes[i].transformation = td.name
                          /\ html.trace_nodes[i].input_models = ReferencedNames(td.IN_)
                          /\ html.trace_nodes[i].output_models = ReferencedNames(td.OUT)
                  ELSE /\ html.trace_nodes[i].transformation = "Unknown"
                       /\ html.trace_nodes[i].input_models = <<>>
                       /\ html.trace_nodes[i].output_models = <<>>

\* the TraceModels that are the latest version of the Transformation they are mapped to
LatestByVersion == {FirstGreatest(MappedTo(t), VersionValue) : t \in MappedTransformations}

\* C15: every key of trace_dependencies is a TraceModel that is the latest version
\* of its Transformation, so a version that is not the latest has no outgoing
\* dependency edge.
C15_OnlyLatestOriginate ==
    BuildReturned =>
        /\ DOMAIN global_trace.trace_dependencies \subseteq global_trace.latest_trace_indices
        /\ DOMAIN global_trace.trace_dependencies \subseteq LatestByVersion
        /\ \A A \in DOMAIN global_trace.trace_to_transformation :
              A \notin LatestByVersion =>
                  \A B \in DOMAIN trace_models : ~InDeps(A, B)

\* T0 has the versions 7 (not the latest) and 9 (the latest), it writes a Model that
\* T1 reads and reads a Model that T1 writes: 9 -> 8 is an edge and 7 -> 8 is not,
\* while 7 is a target of 8
C15_Witness ==
    /\ BuildReturned
    /\ MappedTo(2) = {7, 9}
    /\ 7 \notin global_trace.latest_trace_indices
    /\ OutIndices(7) \cap InIndices(8) # {}
    /\ InDeps(9, 8) /\ ~InDeps(7, 8)
    /\ InDeps(8, 7)

\* the executions whose generates reference resolves to TraceModel tr
GeneratorsOf(tr) ==
    {e \in DOMAIN executions : resolve_reference(executions[e].generates).val = tr}

\* the Transformations whose exec references contain execution e
ListersOf(e) ==
    {t \in DOMAIN transformations :
        InList(e, resolve_references_list(transformations[t].exec).val)}

SetMin(S) == CHOOSE x \in S : \A y \in S : x <= y

\* C16: exec_to_trace links a TraceModel to the first execution in record order
\* whose generates reference resolves to it and to no other; trace_to_transformation
\* maps it to the first Transformation in record order whose exec references
\* contain that execution, and to none when there is no such execution or
\* Transformation; several matching executions or Transformations raise nothing.
C16_FirstMatchChain ==
    /\ entry = "generate" => pc # "raised"
    /\ BuildReturned =>
          \A tr \in DOMAIN trace_models :
              /\ {e \in DOMAIN global_trace.exec_to_trace : global_trace.exec_to_trace[e] = tr}
                     = IF GeneratorsOf(tr) = {} THEN {} ELSE {SetMin(GeneratorsOf(tr))}
              /\ IF GeneratorsOf(tr) = {} \/ ListersOf(SetMin(GeneratorsOf(tr))) = {}
                 THEN tr \notin DOMAIN global_trace.trace_to_transformation
                 ELSE /\ tr \in DOMAIN global_trace.trace_to_transformation
                      /\ global_trace.trace_to_transformation[tr]
                            = SetMin(ListersOf(SetMin(GeneratorsOf(tr))))

\* the executions 3 and 4 both generate TraceModel 5, and both Transformations list
\* execution 3: generate has ended with 5 linked to execution 3 and mapped to
\* Transformation 0
C16_Witness ==
    /\ GenerateReturned
    /\ GeneratorsOf(5) = {3, 4}
    /\ ListersOf(3) = {0, 1}
    /\ global_trace.exec_to_trace = [e \in {3} |-> 5]
    /\ global_trace.trace_to_transformation = [tr \in {5} |-> 0]

\* the TraceModel whose level line 291 reads for Model m: the first one mapped to the
\* first Transformation, in record order, that writes m (NoneIdx when there is none)
ProducerTraceOf(m) ==
    LET writers == {t \in DOMAIN transformations :
                       InList(m, resolve_references_list(transformations[t].OUT).val)}
    IN IF writers = {} \/ MappedTo(SetMin(writers)) = {} THEN NoneIdx
       ELSE SetMin(MappedTo(SetMin(writers)))

\* the level that the consumers of node_levels read for TraceModel tr
LevelRead(tr) == IF tr \in DOMAIN levels THEN levels[tr] ELSE 0

\* C18: the map returned by calculate_node_levels has an entry exactly for the
\* TraceModels that a source node leads to, every recorded level is a non-negative
\* integer, and in the output of generate_d3_html a TraceModel without entry is
\* read as level 0: by its trace node, by its element trace nodes, and by the
\* Models it produces, which stand one level higher.
C18_UnreachableReadAsZero ==
    /\ (entry = "generate" /\ LevelsReturned) =>
          /\ DOMAIN levels = ReachableFromSource(trace_models, dependencies)
          /\ \A tr \in DOMAIN levels : levels[tr] \in Nat
    /\ GenerateReturned =>
          /\ \A i \in 1..Len(html.trace_nodes) :
                html.trace_nodes[i].level = LevelRead(html.trace_nodes[i].id[2])
          /\ \A i \in 1..Len(html.element_nodes) :
                html.element_nodes[i].level = LevelRead(html.element_nodes[i].id[2])
          /\ \A i \in 1..Len(html.model_nodes) :
                html.model_nodes[i].level =
                    IF ProducerTraceOf(html.model_nodes[i].id[2]) = NoneIdx THEN 0
                    ELSE LevelRead(ProducerTraceOf(html.model_nodes[i].id[2])) + 1

\* TraceModel 9 is a source without dependents and the TraceModels 10 and 11 depend
\* on each other: generate has ended, 10 and 11 have no level, their trace and
\* element trace nodes stand at level 0 and the Models they write at level 1
C18_Witness ==
    /\ GenerateReturned
    /\ dependencies = (10 :> <<11>>) @@ (11 :> <<10>>)
    /\ levels = (9 :> 0)
    /\ \E i \in 1..Len(html.trace_nodes) :
          html.trace_nodes[i].id = <<"trace", 11>> /\ html.trace_nodes[i].level = 0
    /\ \E i \in 1..Len(html.element_nodes) :
          html.element_nodes[i].id[2] = 10 /\ html.element_nodes[i].level = 0
    /\ \E i \in 1..Len(html.model_nodes) :
          ProducerTraceOf(html.model_nodes[i].id[2]) = 10 /\ html.model_nodes[i].level = 1

\* new is old with something appended, an absent or empty old counting as empty
Extends(old, new) ==
    \/ Falsy(old)
    \/ Len(new) >= Len(old) /\ SubSeq(new, 1, Len(old)) = old

\* extract_transformations has run, to its end or to an exception
ExtractRan == entry = "generate" /\ (ExtractReturned \/ pc = "raised")

\* after extract_transformations the Transformations are those of the first pass,
\* with nothing changed but IN, and IN changed by appending only
MergeOnlyExtendsIN ==
    ExtractRan =>
        /\ DOMAIN transformations = DOMAIN DirectPass(nodes)
        /\ \A t \in DOMAIN transformations :
              /\ transformations[t] = [DirectPass(nodes)[t] EXCEPT !.IN_ = transformations[t].IN_]
              /\ Extends(DirectPass(nodes)[t].IN_, transformations[t].IN_)
        /\ models = extract_models(nodes)

\* the steps after extraction leave the four entity maps as they are, and
\* extract_transformations leaves the three other maps as they are
EntitiesKept ==
    /\ pc \in {"debug_report", "build_global_trace", "generate_d3_html",
               "calculate_node_levels", "bfs", "d3_nodes_links"} =>
          UNCHANGED <<models, trace_models, executions, transformations>>
    /\ pc = "extract_transformations" => UNCHANGED <<models, trace_models, executions>>

\* C19: build_global_trace, calculate_node_levels and generate_d3_html leave the
\* models, trace_models, executions and transformations maps unchanged; the merge
\* pass of extract_transformations changes nothing but the IN field of
\* Transformations, and that only by appending to it, so that name, exec and OUT are
\* untouched and an In reference to a record that is no Transformation changes
\* nothing.
C19_EntitiesReadOnly ==
    /\ []MergeOnlyExtendsIN
    /\ [][EntitiesKept]_vars

\* Model 0 references Model 1 by In, Model 1 references Transformation 2, which
\* declares Model 0 by IN: generate has ended with IN extended by Model 1 only
C19_Witness ==
    /\ GenerateReturned
    /\ nodes[0].In = NodesRef(1) /\ nodes[1].In = NodesRef(2)
    /\ nodes[2].IN_ = NodesRef(0)
    /\ transformations[2].IN_ = Both(NodesRef(0), NodesRef(1))
    /\ transformations[2].OUT = nodes[2].OUT

\* the ids of the nodes of the output
NodeIds ==
    {html.model_nodes[i].id : i \in 1..Len(html.model_nodes)}
    \cup {html.trace_nodes[i].id : i \in 1..Len(html.trace_nodes)}
    \cup {html.element_nodes[i].id : i \in 1..Len(html.element_nodes)}

\* the edges of the output: links_data, then ancestor_links
EmittedEdges == html.links_data \o html.ancestor_links

\* every reference of the store resolves to an integer
ReferencesResolveToIntegers ==
    /\ ~HasMalformedReference
    /\ \A i \in 1..Len(root) : \A k \in 1..7 :
          ~InList(NoneIdx, ResolvedAttributes(root[i])[k].val)

\* C21 as stated: when every reference of the input resolves to an integer, the
\* source and the target of every edge that generate_d3_html emits are ids of
\* nodes of the emitted node list.
C21_AsStated ==
    (GenerateReturned /\ ReferencesResolveToIntegers) =>
        \A i \in 1..Len(EmittedEdges) :
            /\ EmittedEdges[i].source \in NodeIds
            /\ EmittedEdges[i].target \in NodeIds

\* C22: the map trace_dependencies that build_global_trace returns has no edge from
\* a TraceModel to itself, no target twice in the list of one source and no key
\* with an empty list, and every source and target is a TraceModel that is a key
\* of trace_to_transformation.
C22_DependenciesWellFormed ==
    BuildReturned =>
        \A A \in DOMAIN global_trace.trace_dependencies :
            LET targets == global_trace.trace_dependencies[A]
            IN /\ targets # <<>>
               /\ ~InList(A, targets)
               /\ \A i, j \in 1..Len(targets) : targets[i] = targets[j] => i = j
               /\ A \in DOMAIN trace_models
               /\ A \in DOMAIN global_trace.trace_to_transformation
               /\ \A i \in 1..Len(targets) :
                     /\ targets[i] \in DOMAIN trace_models
                     /\ targets[i] \in DOMAIN global_trace.trace_to_transformation

\* both Transformations read and write both Models: TraceModel 8 reads what it
\* writes and shares two Models with each of 7 and 9, and its targets are 7 and 9,
\* once each
C22_Witness ==
    /\ BuildReturned
    /\ AncestorOf(8) = NoneIdx /\ AncestorOf(9) = NoneIdx
    /\ OutIndices(8) = {0, 1} /\ InIndices(8) = {0, 1} /\ InIndices(9) = {0, 1}
    /\ global_trace.trace_dependencies[8] = <<7, 9>>

====
